---- MODULE Spec2Model ----
(***************************************************************************)
(* Order lifecycle and payment reconciliation of the commerce backend:     *)
(* OrdersService (createOrder, updateOrderStatus, cancelOrder) and         *)
(* PaymentsService (verifyPayment, handleWebhook).  Every request is a     *)
(* call record whose position (pc) advances at each await on the store or  *)
(* on the payment processor; the database rows are the shared state.       *)
(***************************************************************************)
EXTENDS Integers, Sequences, FiniteSets, TLC

\* ---------------------------------------------------------------- bounds
MaxCalls == 2        \* requests started in one behaviour of Spec
MaxPayCalls == 2     \* requests started in one behaviour of SpecPay
MaxStatusCalls == 2  \* requests started in one behaviour of SpecStatus
MaxQty == 2          \* largest quantity of one cart line
MaxLines == 2        \* longest cart of SpecCart
MaxStock == 2        \* initial stock of product P1
MaxRetries == 1      \* collision retries of generateOrderNumber explored
MaxInitCalls == 3    \* requests started in one behaviour of SpecInit
MaxHookCalls == 2    \* requests started in one behaviour of SpecHook
MaxLifeCalls == 2    \* requests started in one behaviour of SpecLife
MaxNumberCalls == 2  \* requests started in one behaviour of SpecNumber

None == "none"

\* ---------------------------------------------------------------- catalog
Products == {"P1", "P2"}
Variants == {"V1"}
Items == Products \cup Variants
VariantProduct == [v \in Variants |-> "P1"]
Stores == {"S1", "S2"}
StoreIds == Stores \cup {"S0"}
StoreIsOpen == [s \in Stores |-> s = "S1"]
ProductStore == [p \in Products |-> "S1"]
Users == {"merchant", "stranger"}
StoreOwner == "merchant"

\* a nullable integer column is the empty set (NULL) or a singleton
NullInt == {}
Dec(col, q) == {n - q : n \in col}
Inc(col, q) == {n + q : n \in col}

ORDER_STATUSES ==
  {"PLACED", "ACCEPTED", "PREPARING", "READY_FOR_PICKUP", "OUT_FOR_DELIVERY",
   "DELIVERED", "COMPLETED", "CANCELLED", "FAILED", "DISPUTED"}

VARIABLES
  stock,           \* stockQuantity of every product and variant (nullable)
  trackInventory,  \* Product.trackInventory
  isAvailable,     \* Product.isAvailable / ProductVariant.isAvailable
  orderCount,      \* Product.orderCount
  orders,          \* the orders table, order id = index
  payments,        \* the payments table, payment id = index
  processor,       \* what the processor answers for reference R1
  clock,           \* wall clock read by new Date()
  co,              \* createOrder calls
  uo,              \* updateOrderStatus calls
  cn,              \* cancelOrder calls
  vp,              \* verifyPayment calls
  wh,              \* handleWebhook calls
  ip,              \* initializePayment calls
  paystackAccount, \* the PaystackAccount row of the store's merchant
  transactions     \* references of the transactions opened at the processor

db == <<stock, orderCount, orders, payments>>
vars == <<stock, trackInventory, isAvailable, orderCount, orders, payments,
          processor, clock, co, uo, cn, vp, wh, ip, paystackAccount,
          transactions>>

Started == Len(co) + Len(uo) + Len(cn) + Len(vp) + Len(wh) + Len(ip)

OrderIds == 1..Len(orders)

\* ---------------------------------------------------------------- carts
Lines == [productId : Products \cup {"P0"}, variantId : Variants \cup {None},
          quantity : 1..MaxQty]

RECURSIVE SeqsUpTo(_, _)
SeqsUpTo(S, n) ==
  IF n = 0 THEN {<<>>}
  ELSE LET shorter == SeqsUpTo(S, n - 1)
       IN shorter \cup {Append(s, x) : s \in {t \in shorter : Len(t) = n - 1}, x \in S}

Carts(n) == SeqsUpTo(Lines, n) \ {<<>>}

Deliveries ==
  { [deliveryOption |-> "PICKUP", deliveryAddress |-> None, deliveryCity |-> None],
    [deliveryOption |-> "CUSTOMER_ARRANGED", deliveryAddress |-> None, deliveryCity |-> None],
    [deliveryOption |-> "MERCHANT_DELIVERY", deliveryAddress |-> None, deliveryCity |-> "Accra"],
    [deliveryOption |-> "MERCHANT_DELIVERY", deliveryAddress |-> "addr", deliveryCity |-> None],
    [deliveryOption |-> "MERCHANT_DELIVERY", deliveryAddress |-> "addr", deliveryCity |-> "Accra"] }

Dto(storeId, items, d) ==
  [storeId |-> storeId, items |-> items, deliveryOption |-> d.deliveryOption,
   deliveryAddress |-> d.deliveryAddress, deliveryCity |-> d.deliveryCity,
   customerPhone |-> "phone1", customerEmail |-> None]

Pickup == [deliveryOption |-> "PICKUP", deliveryAddress |-> None, deliveryCity |-> None]

\* request bodies of SpecCart: any cart for the open store to be picked
\* up, and any one-line cart for any store with any delivery
CartDtos ==
  {Dto("S1", items, Pickup) : items \in Carts(MaxLines)}
  \cup {Dto(s, <<l>>, d) : s \in StoreIds, l \in Lines, d \in Deliveries}

\* request bodies of Spec: one line of product P1 or of its variant, so that
\* concurrent orders compete for the same counters
RaceDtos == {Dto("S1", <<l>>, Pickup) : l \in {x \in Lines : x.productId = "P1"}}

\* ---------------------------------------------------------------- createOrder
\* products.findMany({ id in productIds, storeId, isAvailable: true })
FindProducts(dto, avail) ==
  {p \in Products : /\ \E i \in 1..Len(dto.items) : dto.items[i].productId = p
                    /\ ProductStore[p] = dto.storeId
                    /\ avail[p]}

\* the stock counter a line reads and writes: the variant's if one is chosen
LineCounter(item) == IF item.variantId # None THEN item.variantId ELSE item.productId

\* the body of the for-loop over dto.items: the error it throws, or "ok"
ValidateLine(item, snap) ==
  IF item.productId \notin snap.found THEN "ProductNotFound"
  ELSE IF /\ item.variantId # None
          /\ \/ VariantProduct[item.variantId] # item.productId
             \/ ~snap.isAvailable[item.variantId]
       THEN "VariantNotAvailable"
  ELSE IF /\ snap.trackInventory[item.productId]
          /\ \E n \in snap.stock[LineCounter(item)] : n < item.quantity
       THEN "InsufficientStock"
  ELSE "ok"

RECURSIVE ValidateLines(_, _, _)
ValidateLines(items, i, snap) ==
  IF i > Len(items) THEN "ok"
  ELSE LET r == ValidateLine(items[i], snap)
       IN IF r # "ok" THEN r ELSE ValidateLines(items, i + 1, snap)

\* the checks of createOrder up to the stock validation, first failure wins
ValidateOrder(dto, snap) ==
  IF dto.storeId \notin Stores THEN "StoreNotFound"
  ELSE IF ~StoreIsOpen[dto.storeId] THEN "StoreNotAvailable"
  ELSE IF /\ dto.deliveryOption = "MERCHANT_DELIVERY"
          /\ (dto.deliveryAddress = None \/ dto.deliveryCity = None)
       THEN "AddressRequired"
  ELSE IF Cardinality(snap.found) # Len(dto.items) THEN "ProductsNotAvailable"
  ELSE ValidateLines(dto.items, 1, snap)

Snapshot(dto) ==
  [found |-> FindProducts(dto, isAvailable), trackInventory |-> trackInventory,
   isAvailable |-> isAvailable, stock |-> stock]

NoSnapshot ==
  [found |-> {}, trackInventory |-> [p \in Products |-> FALSE],
   isAvailable |-> [i \in Items |-> FALSE], stock |-> [i \in Items |-> NullInt]]

\* createOrder up to the end of the validation loop (lines 28-131)
CreateOrderValidate(dto) ==
  LET snap == Snapshot(dto)
      r == ValidateOrder(dto, snap)
  IN /\ co' = Append(co, [dto |-> dto,
                           products |-> IF r = "ok" THEN snap ELSE NoSnapshot,
                           orderNumber |-> 0, retries |-> 0, orderId |-> 0,
                           pc |-> IF r = "ok" THEN "generateOrderNumber" ELSE "failed",
                           error |-> IF r = "ok" THEN None ELSE r])
     /\ UNCHANGED <<stock, trackInventory, isAvailable, orderCount, orders,
                    payments, processor, clock, uo, cn, vp, wh,
                 ip, paystackAccount, transactions>>

\* the candidates `ORD-${timestamp}${random}` can produce
OrderNumbers == {1, 2}

OrderNumberExists(n) == \E o \in OrderIds : orders[o].orderNumber = n

\* generateOrderNumber: the candidate is free
GenerateOrderNumber(c) ==
  /\ co[c].pc = "generateOrderNumber"
  /\ \E n \in OrderNumbers :
       /\ ~OrderNumberExists(n)
       /\ co' = [co EXCEPT ![c].orderNumber = n, ![c].pc = "transaction"]
  /\ UNCHANGED <<stock, trackInventory, isAvailable, orderCount, orders,
                 payments, processor, clock, uo, cn, vp, wh,
                 ip, paystackAccount, transactions>>

\* generateOrderNumber: the candidate is taken and the function recurses
GenerateOrderNumberRetry(c) ==
  /\ co[c].pc = "generateOrderNumber"
  /\ co[c].retries < MaxRetries
  /\ \E n \in OrderNumbers : OrderNumberExists(n)
  /\ co' = [co EXCEPT ![c].retries = @ + 1]
  /\ UNCHANGED <<stock, trackInventory, isAvailable, orderCount, orders,
                 payments, processor, clock, uo, cn, vp, wh,
                 ip, paystackAccount, transactions>>

\* generateOrderNumber: the candidate n is taken and the function calls
\* itself with no count of the calls made so far (lines 694-696)
GenerateOrderNumberRecurse(c) ==
  /\ co[c].pc = "generateOrderNumber"
  /\ \E n \in OrderNumbers :
       /\ OrderNumberExists(n)
       /\ co' = [co EXCEPT ![c].orderNumber = n]
  /\ UNCHANGED <<stock, trackInventory, isAvailable, orderCount, orders,
                 payments, processor, clock, uo, cn, vp, wh,
                 ip, paystackAccount, transactions>>

\* Product.price (NOT NULL) and ProductVariant.price (nullable), in pesewas
Price == [i \in Items |-> IF i = "P1" THEN {1000} ELSE IF i = "P2" THEN {750} ELSE {1200}]

\* price = variant.price || product.price for a line with a variant
LinePrice(item) ==
  LET own == IF item.variantId # None THEN Price[item.variantId] ELSE NullInt
      chosen == IF own # NullInt THEN own ELSE Price[item.productId]
  IN CHOOSE n \in chosen : TRUE

\* subtotal accumulated by the loop over dto.items
RECURSIVE Subtotal(_, _)
Subtotal(items, i) ==
  IF i > Len(items) THEN 0
  ELSE LinePrice(items[i]) * items[i].quantity + Subtotal(items, i + 1)

\* cityFees of calculateDeliveryFee, in pesewas
CityFee(city) ==
  CASE city = "Accra" -> 1500
    [] city = "Kumasi" -> 1500
    [] city = "Tema" -> 2000
    [] city = "Takoradi" -> 2500
    [] city = "Tamale" -> 3000
    [] city = "Cape Coast" -> 2500
    [] OTHER -> 2000

calculateDeliveryFee(deliveryOption, deliveryCity) ==
  IF deliveryOption \in {"PICKUP", "CUSTOMER_ARRANGED"} THEN 0
  ELSE CityFee(deliveryCity)

\* an order row whose total leaves the delivery fee out
NewOrderTotalWithoutFee(call, now) ==
  [orderNumber |-> call.orderNumber, storeId |-> call.dto.storeId,
   customerPhone |-> call.dto.customerPhone,
   customerEmail |-> call.dto.customerEmail,
   status |-> "PLACED", paymentStatus |-> "PENDING", paidAt |-> 0,
   subtotal |-> Subtotal(call.dto.items, 1),
   deliveryFee |-> calculateDeliveryFee(call.dto.deliveryOption, call.dto.deliveryCity),
   tax |-> 0, discount |-> 0,
   total |-> Subtotal(call.dto.items, 1),
   statusHistory |-> <<[status |-> "PLACED", timestamp |-> now]>>,
   items |-> call.dto.items,
   acceptedAt |-> 0, preparingAt |-> 0, readyAt |-> 0, deliveredAt |-> 0,
   completedAt |-> 0, cancelledAt |-> 0]

\* an order row created with an empty status history
NewOrderWithoutHistory(call, now) ==
  [orderNumber |-> call.orderNumber, storeId |-> call.dto.storeId,
   customerPhone |-> call.dto.customerPhone,
   customerEmail |-> call.dto.customerEmail,
   status |-> "PLACED", paymentStatus |-> "PENDING", paidAt |-> 0,
   subtotal |-> Subtotal(call.dto.items, 1),
   deliveryFee |-> calculateDeliveryFee(call.dto.deliveryOption, call.dto.deliveryCity),
   tax |-> 0, discount |-> 0,
   total |-> Subtotal(call.dto.items, 1)
             + calculateDeliveryFee(call.dto.deliveryOption, call.dto.deliveryCity)
             + 0 - 0,
   statusHistory |-> <<>>,
   items |-> call.dto.items,
   acceptedAt |-> 0, preparingAt |-> 0, readyAt |-> 0, deliveredAt |-> 0,
   completedAt |-> 0, cancelledAt |-> 0]

NewOrder(call, now) ==
  [orderNumber |-> call.orderNumber, storeId |-> call.dto.storeId,
   customerPhone |-> call.dto.customerPhone,
   customerEmail |-> call.dto.customerEmail,
   status |-> "PLACED", paymentStatus |-> "PENDING", paidAt |-> 0,
   subtotal |-> Subtotal(call.dto.items, 1),
   deliveryFee |-> calculateDeliveryFee(call.dto.deliveryOption, call.dto.deliveryCity),
   tax |-> 0, discount |-> 0,
   total |-> Subtotal(call.dto.items, 1)
             + calculateDeliveryFee(call.dto.deliveryOption, call.dto.deliveryCity)
             + 0 - 0,
   statusHistory |-> <<[status |-> "PLACED", timestamp |-> now]>>,
   items |-> call.dto.items,
   acceptedAt |-> 0, preparingAt |-> 0, readyAt |-> 0, deliveredAt |-> 0,
   completedAt |-> 0, cancelledAt |-> 0]

\* a decrement loop that always charges the product's own counter
RECURSIVE DeductStockIgnoringVariant(_, _, _, _)
DeductStockIgnoringVariant(st, items, i, snap) ==
  IF i > Len(items) THEN st
  ELSE LET item == items[i]
           st1 == IF item.productId \in snap.found /\ snap.trackInventory[item.productId]
                  THEN [st EXCEPT ![item.productId] = Dec(@, item.quantity)]
                  ELSE st
       IN DeductStockIgnoringVariant(st1, items, i + 1, snap)

\* the decrements of the transaction's loop, applied line by line
RECURSIVE DeductStock(_, _, _, _)
DeductStock(st, items, i, snap) ==
  IF i > Len(items) THEN st
  ELSE LET item == items[i]
           st1 == IF item.productId \in snap.found /\ snap.trackInventory[item.productId]
                  THEN [st EXCEPT ![LineCounter(item)] = Dec(@, item.quantity)]
                  ELSE st
       IN DeductStock(st1, items, i + 1, snap)

RECURSIVE CountOrders(_, _, _)
CountOrders(cnt, items, i) ==
  IF i > Len(items) THEN cnt
  ELSE CountOrders([cnt EXCEPT ![items[i].productId] = @ + items[i].quantity], items, i + 1)

\* a commit on a table without the unique index on orderNumber
CreateOrderCommitNoIndex(c) ==
  /\ co[c].pc = "transaction"
  /\ orders' = Append(orders, NewOrder(co[c], clock))
  /\ stock' = DeductStock(stock, co[c].dto.items, 1, co[c].products)
  /\ orderCount' = CountOrders(orderCount, co[c].dto.items, 1)
  /\ clock' = clock + 1
  /\ co' = [co EXCEPT ![c].pc = "audit", ![c].orderId = Len(orders) + 1]
  /\ UNCHANGED <<trackInventory, isAvailable, payments, processor, uo, cn, vp, wh,
                 ip, paystackAccount, transactions>>

\* prisma.$transaction of createOrder commits (lines 137-228)
CreateOrderCommit(c) ==
  /\ co[c].pc = "transaction"
  /\ ~OrderNumberExists(co[c].orderNumber)
  /\ orders' = Append(orders, NewOrder(co[c], clock))
  /\ stock' = DeductStock(stock, co[c].dto.items, 1, co[c].products)
  /\ orderCount' = CountOrders(orderCount, co[c].dto.items, 1)
  /\ clock' = clock + 1
  /\ co' = [co EXCEPT ![c].pc = "audit", ![c].orderId = Len(orders) + 1]
  /\ UNCHANGED <<trackInventory, isAvailable, payments, processor, uo, cn, vp, wh,
                 ip, paystackAccount, transactions>>

\* a createOrder without the transaction: the order row stays when a later
\* statement throws
CreateOrderRollbackPartial(c) ==
  /\ co[c].pc = "transaction"
  /\ ~OrderNumberExists(co[c].orderNumber)
  /\ orders' = Append(orders, NewOrder(co[c], clock))
  /\ clock' = clock + 1
  /\ co' = [co EXCEPT ![c].pc = "failed", ![c].error = "TransactionFailed"]
  /\ UNCHANGED <<stock, trackInventory, isAvailable, orderCount,
                 payments, processor, uo, cn, vp, wh,
                 ip, paystackAccount, transactions>>

\* the transaction throws (unique index on orderNumber, lost connection)
\* and is rolled back
CreateOrderRollback(c) ==
  /\ co[c].pc = "transaction"
  /\ co' = [co EXCEPT ![c].pc = "failed", ![c].error = "TransactionFailed"]
  /\ UNCHANGED <<stock, trackInventory, isAvailable, orderCount, orders,
                 payments, processor, clock, uo, cn, vp, wh,
                 ip, paystackAccount, transactions>>

\* await this.audit.log(...) after the commit resolves
CreateOrderAudit(c) ==
  /\ co[c].pc = "audit"
  /\ co' = [co EXCEPT ![c].pc = "done"]
  /\ UNCHANGED <<stock, trackInventory, isAvailable, orderCount, orders,
                 payments, processor, clock, uo, cn, vp, wh,
                 ip, paystackAccount, transactions>>

\* an audit failure that is compensated by marking the new order failed
CreateOrderAuditFailUnwinding(c) ==
  /\ co[c].pc = "audit"
  /\ orders' = [orders EXCEPT ![co[c].orderId].status = "FAILED"]
  /\ co' = [co EXCEPT ![c].pc = "failed", ![c].error = "AuditFailed"]
  /\ UNCHANGED <<stock, trackInventory, isAvailable, orderCount,
                 payments, processor, clock, uo, cn, vp, wh,
                 ip, paystackAccount, transactions>>

\* await this.audit.log(...) rejects: the call throws after its commit
CreateOrderAuditFail(c) ==
  /\ co[c].pc = "audit"
  /\ co' = [co EXCEPT ![c].pc = "failed", ![c].error = "AuditFailed"]
  /\ UNCHANGED <<stock, trackInventory, isAvailable, orderCount, orders,
                 payments, processor, clock, uo, cn, vp, wh,
                 ip, paystackAccount, transactions>>

\* ---------------------------------------------------------------- updateOrderStatus
\* a table that lets a delivered order go back to the kitchen
validTransitionsLoose ==
  [s \in ORDER_STATUSES |->
     CASE s = "PLACED" -> {"ACCEPTED", "CANCELLED"}
       [] s = "ACCEPTED" -> {"PREPARING", "CANCELLED"}
       [] s = "PREPARING" -> {"READY_FOR_PICKUP", "OUT_FOR_DELIVERY", "CANCELLED"}
       [] s = "READY_FOR_PICKUP" -> {"COMPLETED", "CANCELLED"}
       [] s = "OUT_FOR_DELIVERY" -> {"DELIVERED", "FAILED"}
       [] s = "DELIVERED" -> {"COMPLETED", "DISPUTED", "PREPARING"}
       [] s = "COMPLETED" -> {"DISPUTED"}
       [] s = "CANCELLED" -> {}
       [] s = "FAILED" -> {"PLACED"}
       [] s = "DISPUTED" -> {}]

validTransitions ==
  [s \in ORDER_STATUSES |->
     CASE s = "PLACED" -> {"ACCEPTED", "CANCELLED"}
       [] s = "ACCEPTED" -> {"PREPARING", "CANCELLED"}
       [] s = "PREPARING" -> {"READY_FOR_PICKUP", "OUT_FOR_DELIVERY", "CANCELLED"}
       [] s = "READY_FOR_PICKUP" -> {"COMPLETED", "CANCELLED"}
       [] s = "OUT_FOR_DELIVERY" -> {"DELIVERED", "FAILED"}
       [] s = "DELIVERED" -> {"COMPLETED", "DISPUTED"}
       [] s = "COMPLETED" -> {"DISPUTED"}
       [] s = "CANCELLED" -> {}
       [] s = "FAILED" -> {"PLACED"}
       [] s = "DISPUTED" -> {}]

\* validateStatusTransition does not throw
validateStatusTransition(currentStatus, newStatus) ==
  /\ currentStatus \in DOMAIN validTransitions
  /\ newStatus \in validTransitions[currentStatus]

NoOrder ==
  [orderNumber |-> 0, storeId |-> None, customerPhone |-> None,
   customerEmail |-> None, status |-> None, paymentStatus |-> None,
   paidAt |-> 0, subtotal |-> 0, deliveryFee |-> 0, tax |-> 0, discount |-> 0,
   total |-> 0, statusHistory |-> <<>>, items |-> <<>>,
   acceptedAt |-> 0, preparingAt |-> 0, readyAt |-> 0, deliveredAt |-> 0,
   completedAt |-> 0, cancelledAt |-> 0]

\* the timestamps object of updateOrderStatus spread into the update
StampStatus(o, status, now) ==
  [o EXCEPT !.acceptedAt = IF status = "ACCEPTED" THEN now ELSE @,
            !.preparingAt = IF status = "PREPARING" THEN now ELSE @,
            !.readyAt = IF status = "READY_FOR_PICKUP" THEN now ELSE @,
            !.deliveredAt = IF status = "DELIVERED" THEN now ELSE @,
            !.completedAt = IF status = "COMPLETED" THEN now ELSE @,
            !.cancelledAt = IF status = "CANCELLED" THEN now ELSE @]

\* the error updateOrderStatus throws before its update, from the order it
\* read and the (fixed) merchant of the caller
UpdateStatusCheck(userId, order, status) ==
  IF order = NoOrder THEN "NotFound"
  ELSE IF userId # StoreOwner THEN "Forbidden"
  ELSE IF ~validateStatusTransition(order.status, status) THEN "InvalidTransition"
  ELSE "ok"

\* updateOrderStatus: order.findUnique and the checks on what it returned
\* (lines 448-472)
UpdateStatusRead(userId, orderId, status) ==
  LET order == IF orderId \in OrderIds THEN orders[orderId] ELSE NoOrder
      r == UpdateStatusCheck(userId, order, status)
  IN /\ uo' = Append(uo, [userId |-> userId, orderId |-> orderId, status |-> status,
                           order |-> order,
                           pc |-> IF r = "ok" THEN "update" ELSE "failed",
                           error |-> IF r = "ok" THEN None ELSE r])
     /\ UNCHANGED <<stock, trackInventory, isAvailable, orderCount, orders,
                    payments, processor, clock, co, cn, vp, wh,
                 ip, paystackAccount, transactions>>

\* updateOrderStatus: order.update with the history built from the read
\* order (lines 474-511)
UpdateStatusWrite(c) ==
  LET call == uo[c]
      statusHistory == Append(call.order.statusHistory,
                              [status |-> call.status, timestamp |-> clock])
  IN /\ call.pc = "update"
     /\ orders' = [orders EXCEPT ![call.orderId] =
                     StampStatus([@ EXCEPT !.status = call.status,
                                           !.statusHistory = statusHistory],
                                 call.status, clock)]
     /\ clock' = clock + 1
     /\ uo' = [uo EXCEPT ![c].pc = "audit"]
     /\ UNCHANGED <<stock, trackInventory, isAvailable, orderCount,
                    payments, processor, co, cn, vp, wh,
                 ip, paystackAccount, transactions>>

\* await this.audit.log(...) of updateOrderStatus resolves
UpdateStatusAudit(c) ==
  /\ uo[c].pc = "audit"
  /\ uo' = [uo EXCEPT ![c].pc = "done"]
  /\ UNCHANGED <<stock, trackInventory, isAvailable, orderCount, orders,
                 payments, processor, clock, co, cn, vp, wh,
                 ip, paystackAccount, transactions>>

\* await this.audit.log(...) of updateOrderStatus rejects: the call throws
\* after its update
UpdateStatusAuditFail(c) ==
  /\ uo[c].pc = "audit"
  /\ uo' = [uo EXCEPT ![c].pc = "failed", ![c].error = "AuditFailed"]
  /\ UNCHANGED <<stock, trackInventory, isAvailable, orderCount, orders,
                 payments, processor, clock, co, cn, vp, wh, ip,
                 paystackAccount, transactions>>

\* ---------------------------------------------------------------- cancelOrder
\* a status check that forgets CANCELLED
CancelCheckLoose(userId, order) ==
  IF order = NoOrder THEN "NotFound"
  ELSE IF order.status \in {"DELIVERED", "COMPLETED"} THEN "CannotCancel"
  ELSE IF order.status # "PLACED" /\ userId # None /\ userId # StoreOwner
       THEN "Forbidden"
  ELSE "ok"

\* the error cancelOrder throws before its transaction, from the order it
\* read and the (fixed) merchant of the caller
CancelCheck(userId, order) ==
  IF order = NoOrder THEN "NotFound"
  ELSE IF order.status \in {"DELIVERED", "COMPLETED", "CANCELLED"} THEN "CannotCancel"
  ELSE IF order.status # "PLACED" /\ userId # None /\ userId # StoreOwner
       THEN "Forbidden"
  ELSE "ok"

\* cancelOrder: order.findUnique with items, products and variants, and the
\* checks on what it returned (lines 541-578)
CancelOrderRead(orderId, userId) ==
  LET order == IF orderId \in OrderIds THEN orders[orderId] ELSE NoOrder
      r == CancelCheck(userId, order)
  IN /\ cn' = Append(cn, [userId |-> userId, orderId |-> orderId, order |-> order,
                           trackInventory |-> trackInventory,
                           pc |-> IF r = "ok" THEN "transaction" ELSE "failed",
                           error |-> IF r = "ok" THEN None ELSE r])
     /\ UNCHANGED <<stock, trackInventory, isAvailable, orderCount, orders,
                    payments, processor, clock, co, uo, vp, wh,
                 ip, paystackAccount, transactions>>

\* a restore loop that always increments the product's own counter
RECURSIVE RestoreStockIgnoringVariant(_, _, _, _)
RestoreStockIgnoringVariant(st, items, i, track) ==
  IF i > Len(items) THEN st
  ELSE LET item == items[i]
           st1 == IF track[item.productId]
                  THEN [st EXCEPT ![item.productId] = Inc(@, item.quantity)]
                  ELSE st
       IN RestoreStockIgnoringVariant(st1, items, i + 1, track)

\* the increments of the transaction's loop over the read items
RECURSIVE RestoreStock(_, _, _, _)
RestoreStock(st, items, i, track) ==
  IF i > Len(items) THEN st
  ELSE LET item == items[i]
           st1 == IF track[item.productId]
                  THEN [st EXCEPT ![LineCounter(item)] = Inc(@, item.quantity)]
                  ELSE st
       IN RestoreStock(st1, items, i + 1, track)

\* prisma.$transaction of cancelOrder commits (lines 580-620)
CancelOrderCommit(c) ==
  LET call == cn[c]
      statusHistory == Append(call.order.statusHistory,
                              [status |-> "CANCELLED", timestamp |-> clock])
  IN /\ call.pc = "transaction"
     /\ orders' = [orders EXCEPT ![call.orderId].status = "CANCELLED",
                                 ![call.orderId].cancelledAt = clock,
                                 ![call.orderId].statusHistory = statusHistory]
     /\ stock' = RestoreStock(stock, call.order.items, 1, call.trackInventory)
     /\ clock' = clock + 1
     /\ cn' = [cn EXCEPT ![c].pc = "audit"]
     /\ UNCHANGED <<trackInventory, isAvailable, orderCount, payments,
                    processor, co, uo, vp, wh,
                 ip, paystackAccount, transactions>>

\* a cancelOrder without the transaction: the status update stays when the
\* stock restore throws
CancelOrderRollbackPartial(c) ==
  /\ cn[c].pc = "transaction"
  /\ orders' = [orders EXCEPT ![cn[c].orderId].status = "CANCELLED",
                              ![cn[c].orderId].cancelledAt = clock]
  /\ clock' = clock + 1
  /\ cn' = [cn EXCEPT ![c].pc = "failed", ![c].error = "TransactionFailed"]
  /\ UNCHANGED <<stock, trackInventory, isAvailable, orderCount, payments,
                 processor, co, uo, vp, wh,
                 ip, paystackAccount, transactions>>

\* the transaction of cancelOrder throws and is rolled back
CancelOrderRollback(c) ==
  /\ cn[c].pc = "transaction"
  /\ cn' = [cn EXCEPT ![c].pc = "failed", ![c].error = "TransactionFailed"]
  /\ UNCHANGED <<stock, trackInventory, isAvailable, orderCount, orders,
                 payments, processor, clock, co, uo, vp, wh,
                 ip, paystackAccount, transactions>>

\* await this.audit.log(...) of cancelOrder resolves
CancelOrderAudit(c) ==
  /\ cn[c].pc = "audit"
  /\ cn' = [cn EXCEPT ![c].pc = "done"]
  /\ UNCHANGED <<stock, trackInventory, isAvailable, orderCount, orders,
                 payments, processor, clock, co, uo, vp, wh,
                 ip, paystackAccount, transactions>>

\* await this.audit.log(...) of cancelOrder rejects: the call throws after
\* its commit
CancelOrderAuditFail(c) ==
  /\ cn[c].pc = "audit"
  /\ cn' = [cn EXCEPT ![c].pc = "failed", ![c].error = "AuditFailed"]
  /\ UNCHANGED <<stock, trackInventory, isAvailable, orderCount, orders,
                 payments, processor, clock, co, uo, vp, wh, ip,
                 paystackAccount, transactions>>

\* ---------------------------------------------------------------- updateProduct
\* the request bodies of updateProduct explored: { trackInventory }
UpdateProductDtos == [trackInventory : BOOLEAN]

\* ProductsService.updateProduct by the owning merchant: product.update
\* with the fields of the dto (lines 543-596); the product exists, no name
\* is sent, and the audit row that follows is not part of this state
UpdateProduct(userId, productId, dto) ==
  /\ userId = StoreOwner
  /\ productId \in Products
  /\ trackInventory' = [trackInventory EXCEPT ![productId] = dto.trackInventory]
  /\ UNCHANGED <<stock, isAvailable, orderCount, orders, payments, processor,
                 clock, co, uo, cn, vp, wh, ip, paystackAccount, transactions>>

\* ---------------------------------------------------------------- processor
References == {"R1", "R0"}      \* R0 is a reference nobody initialized
SecretKey == "sk_platform"
Keys == {SecretKey, "sk_other"}

\* createHmac('sha512', key).update(body).digest('hex'): determined by the
\* key and by every byte of the body
Hmac(key, body) == <<"hmac", key, body.event, body.reference>>

\* a comparison that checks the digest of the body but not the key it
\* was computed under
verifyWebhookSignatureAnyKey(signature, body) ==
  \E k \in Keys : Hmac(k, body) = signature

\* PaystackService.verifyWebhookSignature
verifyWebhookSignature(signature, body) == Hmac(SecretKey, body) = signature

Bodies == [event : {"charge.success", "transfer.success"}, reference : References]
Signatures == {Hmac(k, b) : k \in Keys, b \in Bodies}

\* the customer pays, or the charge is declined, at the processor
ProcessorSettle ==
  /\ processor = "abandoned"
  /\ \E outcome \in {"success", "failed"} : processor' = outcome
  /\ UNCHANGED <<stock, trackInventory, isAvailable, orderCount, orders,
                 payments, clock, co, uo, cn, vp, wh,
                 ip, paystackAccount, transactions>>

\* ---------------------------------------------------------------- verifyPayment
PaymentIds == 1..Len(payments)

\* payment.findFirst({ where: { paystackReference } }): a payment id or 0
FindPayment(reference) ==
  IF \E i \in PaymentIds : payments[i].paystackReference = reference
  THEN CHOOSE i \in PaymentIds : payments[i].paystackReference = reference
  ELSE 0

NoPayment ==
  [orderId |-> 0, paystackReference |-> None, status |-> None, verifiedAt |-> 0,
   webhookVerified |-> FALSE, webhookReceived |-> FALSE, webhookPayload |-> None]

\* verifyPayment: paystack.verifyTransaction answers or throws (line 132)
VerifyPaymentCall(reference) ==
  /\ vp' = Append(vp, [reference |-> reference,
                        paystackData |-> IF reference = "R1" THEN processor ELSE None,
                        paymentId |-> 0, payment |-> NoPayment,
                        pc |-> IF reference = "R1" THEN "findFirst" ELSE "failed",
                        error |-> IF reference = "R1" THEN None ELSE "UpstreamFailure"])
  /\ UNCHANGED <<stock, trackInventory, isAvailable, orderCount, orders,
                 payments, processor, clock, co, uo, cn, wh,
                 ip, paystackAccount, transactions>>

\* verifyPayment: payment.findFirst (lines 135-152)
VerifyPaymentFind(c) ==
  LET id == FindPayment(vp[c].reference)
  IN /\ vp[c].pc = "findFirst"
     /\ vp' = IF id = 0
              THEN [vp EXCEPT ![c].pc = "failed", ![c].error = "NotFound"]
              ELSE [vp EXCEPT ![c].pc = "update", ![c].paymentId = id,
                              ![c].payment = payments[id]]
     /\ UNCHANGED <<stock, trackInventory, isAvailable, orderCount, orders,
                    payments, processor, clock, co, uo, cn, wh,
                 ip, paystackAccount, transactions>>

\* verifyPayment: payment.update (lines 155-166)
VerifyPaymentUpdate(c) ==
  LET call == vp[c]
      success == call.paystackData = "success"
  IN /\ call.pc = "update"
     /\ payments' = [payments EXCEPT ![call.paymentId] =
                       [@ EXCEPT !.status = IF success THEN "COMPLETED" ELSE "FAILED",
                                 !.verifiedAt = IF success THEN clock ELSE 0,
                                 !.webhookVerified = TRUE,
                                 !.webhookPayload = call.paystackData]]
     /\ clock' = clock + 1
     /\ vp' = [vp EXCEPT ![c].pc = IF success THEN "orderUpdate" ELSE "done"]
     /\ UNCHANGED <<stock, trackInventory, isAvailable, orderCount, orders,
                    processor, co, uo, cn, wh,
                 ip, paystackAccount, transactions>>

\* the order.update of both reconciliation paths
MarkOrderPaid(o, now) ==
  [o EXCEPT !.paymentStatus = "COMPLETED", !.paidAt = now, !.status = "PREPARING"]

\* verifyPayment: order.update (lines 169-177)
VerifyPaymentOrderUpdate(c) ==
  /\ vp[c].pc = "orderUpdate"
  /\ orders' = [orders EXCEPT ![vp[c].payment.orderId] = MarkOrderPaid(@, clock)]
  /\ clock' = clock + 1
  /\ vp' = [vp EXCEPT ![c].pc = "done"]
  /\ UNCHANGED <<stock, trackInventory, isAvailable, orderCount, payments,
                 processor, co, uo, cn, wh,
                 ip, paystackAccount, transactions>>

\* a store call of verifyPayment throws: the request ends where it is
VerifyPaymentFail(c) ==
  /\ vp[c].pc \in {"update", "orderUpdate"}
  /\ vp' = [vp EXCEPT ![c].pc = "failed", ![c].error = "StoreFailure"]
  /\ UNCHANGED <<stock, trackInventory, isAvailable, orderCount, orders,
                 payments, processor, clock, co, uo, cn, wh,
                 ip, paystackAccount, transactions>>

\* ---------------------------------------------------------------- handleWebhook
\* handleWebhook up to the findFirst of handleChargeSuccess
\* (lines 198-213, 238-242)
HandleWebhook(signature, body) ==
  LET valid == verifyWebhookSignature(signature, body)
      charge == valid /\ body.event = "charge.success"
      id == IF charge THEN FindPayment(body.reference) ELSE 0
      pending == id # 0 /\ payments[id].status = "PENDING"
  IN /\ wh' = Append(wh, [signature |-> signature, body |-> body,
                          paymentId |-> id,
                          payment |-> IF id # 0 THEN payments[id] ELSE NoPayment,
                          pc |-> IF ~valid THEN "failed"
                                 ELSE IF pending THEN "update" ELSE "done",
                          error |-> IF valid THEN None ELSE "InvalidSignature"])
     /\ UNCHANGED <<stock, trackInventory, isAvailable, orderCount, orders,
                    payments, processor, clock, co, uo, cn, vp,
                 ip, paystackAccount, transactions>>

\* handleChargeSuccess: payment.update (lines 243-251)
ChargeSuccessUpdate(c) ==
  /\ wh[c].pc = "update"
  /\ payments' = [payments EXCEPT ![wh[c].paymentId] =
                    [@ EXCEPT !.status = "COMPLETED", !.verifiedAt = clock,
                              !.webhookReceived = TRUE,
                              !.webhookPayload = wh[c].body.event]]
  /\ clock' = clock + 1
  /\ wh' = [wh EXCEPT ![c].pc = "orderUpdate"]
  /\ UNCHANGED <<stock, trackInventory, isAvailable, orderCount, orders,
                 processor, co, uo, cn, vp,
                 ip, paystackAccount, transactions>>

\* an order.update of the webhook path that records the payment but leaves
\* the order's status alone
ChargeSuccessOrderUpdateKeepingStatus(c) ==
  /\ wh[c].pc = "orderUpdate"
  /\ orders' = [orders EXCEPT ![wh[c].payment.orderId].paymentStatus = "COMPLETED",
                              ![wh[c].payment.orderId].paidAt = clock]
  /\ clock' = clock + 1
  /\ wh' = [wh EXCEPT ![c].pc = "done"]
  /\ UNCHANGED <<stock, trackInventory, isAvailable, orderCount, payments,
                 processor, co, uo, cn, vp, ip, paystackAccount, transactions>>

\* handleChargeSuccess: order.update (lines 253-260)
ChargeSuccessOrderUpdate(c) ==
  /\ wh[c].pc = "orderUpdate"
  /\ orders' = [orders EXCEPT ![wh[c].payment.orderId] = MarkOrderPaid(@, clock)]
  /\ clock' = clock + 1
  /\ wh' = [wh EXCEPT ![c].pc = "done"]
  /\ UNCHANGED <<stock, trackInventory, isAvailable, orderCount, payments,
                 processor, co, uo, cn, vp,
                 ip, paystackAccount, transactions>>

\* a store call of handleChargeSuccess throws: the delivery ends where it is
ChargeSuccessFail(c) ==
  /\ wh[c].pc \in {"update", "orderUpdate"}
  /\ wh' = [wh EXCEPT ![c].pc = "failed", ![c].error = "StoreFailure"]
  /\ UNCHANGED <<stock, trackInventory, isAvailable, orderCount, orders,
                 payments, processor, clock, co, uo, cn, vp,
                 ip, paystackAccount, transactions>>

\* ---------------------------------------------------------------- initializePayment
\* the states of the merchant's PaystackAccount row: absent, or present with
\* isActive false or true
PaystackAccounts == {"none", "inactive", "active"}

\* `ORD-${order.orderNumber}-${Date.now()}` for the milliseconds the clock
\* can show
NewReferences == {"R1", "R2"}

InitializeDtos == [orderId : {0, 1}, email : {"a@x"}, phone : {"phone1", "phone2"}]

\* a precondition list without the sub-account check
InitializeCheckNoAccount(order, dto, account) ==
  IF order = NoOrder THEN "NotFound"
  ELSE IF order.customerEmail # dto.email /\ order.customerPhone # dto.phone
       THEN "ContactMismatch"
  ELSE IF order.paymentStatus = "COMPLETED" THEN "AlreadyPaid"
  ELSE "ok"

\* the error initializePayment throws before it calls the processor, from
\* the order it read with its store, merchant and paystackAccount
InitializeCheck(order, dto, account) ==
  IF order = NoOrder THEN "NotFound"
  ELSE IF order.customerEmail # dto.email /\ order.customerPhone # dto.phone
       THEN "ContactMismatch"
  ELSE IF order.paymentStatus = "COMPLETED" THEN "AlreadyPaid"
  ELSE IF account = "none" THEN "MerchantPaymentNotConfigured"
  ELSE "ok"

\* initializePayment: order.findUnique and the checks on what it returned
\* (lines 29-64)
InitializePaymentRead(dto) ==
  LET order == IF dto.orderId \in OrderIds THEN orders[dto.orderId] ELSE NoOrder
      r == InitializeCheck(order, dto, paystackAccount)
  IN /\ ip' = Append(ip, [dto |-> dto, order |-> order, reference |-> None,
                           paymentId |-> 0,
                           pc |-> IF r = "ok" THEN "initializeTransaction" ELSE "failed",
                           error |-> IF r = "ok" THEN None ELSE r])
     /\ UNCHANGED <<stock, trackInventory, isAvailable, orderCount, orders,
                    payments, processor, clock, co, uo, cn, vp, wh,
                    paystackAccount, transactions>>

\* initializePayment: the reference is generated and the processor opens the
\* transaction (lines 67-86); the processor refuses a reference it has seen
InitializeTransaction(c) ==
  /\ ip[c].pc = "initializeTransaction"
  /\ \E reference \in NewReferences :
       IF reference \in transactions
       THEN /\ ip' = [ip EXCEPT ![c].pc = "failed", ![c].error = "UpstreamFailure",
                                ![c].reference = reference]
            /\ UNCHANGED transactions
       ELSE /\ ip' = [ip EXCEPT ![c].pc = "create", ![c].reference = reference]
            /\ transactions' = transactions \cup {reference}
  /\ UNCHANGED <<stock, trackInventory, isAvailable, orderCount, orders,
                 payments, processor, clock, co, uo, cn, vp, wh, paystackAccount>>

\* initializePayment: the processor call throws (timeout, 4xx) and
\* initializeTransaction rethrows
InitializeTransactionFail(c) ==
  /\ ip[c].pc = "initializeTransaction"
  /\ ip' = [ip EXCEPT ![c].pc = "failed", ![c].error = "UpstreamFailure"]
  /\ UNCHANGED <<stock, trackInventory, isAvailable, orderCount, orders,
                 payments, processor, clock, co, uo, cn, vp, wh,
                 paystackAccount, transactions>>

\* payment.create would violate payments_orderId_key or
\* payments_paystackReference_key
PaymentConflict(orderId, reference) ==
  \E p \in PaymentIds :
    payments[p].orderId = orderId \/ payments[p].paystackReference = reference

\* an insert that also marks the order as being paid
InitializePaymentCreateMarkingOrder(c) ==
  /\ ip[c].pc = "create"
  /\ ~PaymentConflict(ip[c].dto.orderId, ip[c].reference)
  /\ payments' = Append(payments,
                        [NoPayment EXCEPT !.orderId = ip[c].dto.orderId,
                                          !.paystackReference = ip[c].reference,
                                          !.status = "PENDING"])
  /\ orders' = [orders EXCEPT ![ip[c].dto.orderId].paymentStatus = "PROCESSING"]
  /\ ip' = [ip EXCEPT ![c].pc = "audit", ![c].paymentId = Len(payments) + 1]
  /\ UNCHANGED <<stock, trackInventory, isAvailable, orderCount,
                 processor, clock, co, uo, cn, vp, wh, paystackAccount,
                 transactions>>

\* initializePayment: payment.create inserts the PENDING row (lines 89-104)
InitializePaymentCreate(c) ==
  /\ ip[c].pc = "create"
  /\ ~PaymentConflict(ip[c].dto.orderId, ip[c].reference)
  /\ payments' = Append(payments,
                        [NoPayment EXCEPT !.orderId = ip[c].dto.orderId,
                                          !.paystackReference = ip[c].reference,
                                          !.status = "PENDING"])
  /\ ip' = [ip EXCEPT ![c].pc = "audit", ![c].paymentId = Len(payments) + 1]
  /\ UNCHANGED <<stock, trackInventory, isAvailable, orderCount, orders,
                 processor, clock, co, uo, cn, vp, wh, paystackAccount,
                 transactions>>

\* initializePayment: payment.create throws on a unique index
InitializePaymentCreateFail(c) ==
  /\ ip[c].pc = "create"
  /\ PaymentConflict(ip[c].dto.orderId, ip[c].reference)
  /\ ip' = [ip EXCEPT ![c].pc = "failed", ![c].error = "UniqueViolation"]
  /\ UNCHANGED <<stock, trackInventory, isAvailable, orderCount, orders,
                 payments, processor, clock, co, uo, cn, vp, wh,
                 paystackAccount, transactions>>

\* await this.audit.log(...) of initializePayment resolves
InitializePaymentAudit(c) ==
  /\ ip[c].pc = "audit"
  /\ ip' = [ip EXCEPT ![c].pc = "done"]
  /\ UNCHANGED <<stock, trackInventory, isAvailable, orderCount, orders,
                 payments, processor, clock, co, uo, cn, vp, wh,
                 paystackAccount, transactions>>

\* await this.audit.log(...) of initializePayment rejects: the call throws
\* after its insert
InitializePaymentAuditFail(c) ==
  /\ ip[c].pc = "audit"
  /\ ip' = [ip EXCEPT ![c].pc = "failed", ![c].error = "AuditFailed"]
  /\ UNCHANGED <<stock, trackInventory, isAvailable, orderCount, orders,
                 payments, processor, clock, co, uo, cn, vp, wh,
                 paystackAccount, transactions>>

\* ---------------------------------------------------------------- initial states
NoCalls ==
  co = <<>> /\ uo = <<>> /\ cn = <<>> /\ vp = <<>> /\ wh = <<>> /\ ip = <<>>

\* the seeded catalog, no order placed yet
Init ==
  /\ stock = [i \in Items |-> IF i = "P1" THEN {MaxStock} ELSE {1}]
  /\ trackInventory = [p \in Products |-> TRUE]
  /\ isAvailable = [i \in Items |-> TRUE]
  /\ orderCount = [p \in Products |-> 0]
  /\ orders = <<>>
  /\ payments = <<>>
  /\ processor = "abandoned"
  /\ clock = 1
  /\ paystackAccount = "active"
  /\ transactions = {}
  /\ NoCalls

\* a catalog of any shape, no order placed yet
InitCart ==
  /\ \E s \in {NullInt, {MaxStock}} :
       stock = [i \in Items |-> IF i = "P1" THEN s ELSE {1}]
  /\ \E t \in BOOLEAN : trackInventory = [p \in Products |-> p = "P1" \/ t]
  /\ \E off \in {None, "V1", "P2"} : isAvailable = [i \in Items |-> i # off]
  /\ orderCount = [p \in Products |-> 0]
  /\ orders = <<>>
  /\ payments = <<>>
  /\ processor = "abandoned"
  /\ clock = 1
  /\ paystackAccount = "active"
  /\ transactions = {}
  /\ NoCalls

\* the statuses an order went through to reach each status
StatusPath ==
  [s \in ORDER_STATUSES |->
     CASE s = "PLACED" -> <<>>
       [] s = "ACCEPTED" -> <<"ACCEPTED">>
       [] s = "PREPARING" -> <<"ACCEPTED", "PREPARING">>
       [] s = "READY_FOR_PICKUP" -> <<"ACCEPTED", "PREPARING", "READY_FOR_PICKUP">>
       [] s = "OUT_FOR_DELIVERY" -> <<"ACCEPTED", "PREPARING", "OUT_FOR_DELIVERY">>
       [] s = "DELIVERED" -> <<"ACCEPTED", "PREPARING", "OUT_FOR_DELIVERY", "DELIVERED">>
       [] s = "COMPLETED" -> <<"ACCEPTED", "PREPARING", "READY_FOR_PICKUP", "COMPLETED">>
       [] s = "CANCELLED" -> <<"CANCELLED">>
       [] s = "FAILED" -> <<"ACCEPTED", "PREPARING", "OUT_FOR_DELIVERY", "FAILED">>
       [] s = "DISPUTED" -> <<"ACCEPTED", "PREPARING", "OUT_FOR_DELIVERY", "DELIVERED",
                              "DISPUTED">>]

\* the order after the updateOrderStatus writes of a path, one per tick
RECURSIVE FollowPath(_, _, _)
FollowPath(o, path, i) ==
  IF i > Len(path) THEN o
  ELSE FollowPath(
         StampStatus([o EXCEPT !.status = path[i],
                               !.statusHistory = Append(@, [status |-> path[i],
                                                            timestamp |-> i + 1])],
                     path[i], i + 1),
         path, i + 1)

PlacedOrder ==
  NewOrder([orderNumber |-> 1,
            dto |-> Dto("S1", <<[productId |-> "P1", variantId |-> None, quantity |-> 1]>>,
                        Pickup)], 1)

\* one order of one unit of P1, in any status, with a payment initialized
\* for it and not yet reconciled
InitPay ==
  /\ stock = [i \in Items |-> IF i = "P1" THEN {MaxStock - 1} ELSE {1}]
  /\ trackInventory = [p \in Products |-> TRUE]
  /\ isAvailable = [i \in Items |-> TRUE]
  /\ orderCount = [p \in Products |-> IF p = "P1" THEN 1 ELSE 0]
  /\ \E s \in ORDER_STATUSES :
       /\ orders = <<FollowPath(PlacedOrder, StatusPath[s], 1)>>
       /\ clock = Len(StatusPath[s]) + 2
  /\ payments = <<[NoPayment EXCEPT !.orderId = 1, !.paystackReference = "R1",
                                    !.status = "PENDING"]>>
  /\ processor = "abandoned"
  /\ paystackAccount = "active"
  /\ transactions = {"R1"}
  /\ NoCalls

\* one PLACED order of one unit of P1, no payment initialized yet, and a
\* merchant with any PaystackAccount row
InitInit ==
  /\ stock = [i \in Items |-> IF i = "P1" THEN {MaxStock - 1} ELSE {1}]
  /\ trackInventory = [p \in Products |-> TRUE]
  /\ isAvailable = [i \in Items |-> TRUE]
  /\ orderCount = [p \in Products |-> IF p = "P1" THEN 1 ELSE 0]
  /\ orders = <<PlacedOrder>>
  /\ clock = 2
  /\ payments = <<>>
  /\ processor = "abandoned"
  /\ paystackAccount \in PaystackAccounts
  /\ transactions = {}
  /\ NoCalls

\* one PLACED order without payment, its merchant ready to be paid
InitLife == InitInit /\ paystackAccount = "active"

\* ---------------------------------------------------------------- next-state relations
InitializePaymentSteps ==
  \/ \E c \in 1..Len(ip) : InitializeTransaction(c)
  \/ \E c \in 1..Len(ip) : InitializeTransactionFail(c)
  \/ \E c \in 1..Len(ip) : InitializePaymentCreate(c)
  \/ \E c \in 1..Len(ip) : InitializePaymentCreateFail(c)
  \/ \E c \in 1..Len(ip) : InitializePaymentAudit(c)
  \/ \E c \in 1..Len(ip) : InitializePaymentAuditFail(c)

CreateOrderSteps ==
  \/ \E c \in 1..Len(co) : GenerateOrderNumber(c)
  \/ \E c \in 1..Len(co) : CreateOrderCommit(c)
  \/ \E c \in 1..Len(co) : CreateOrderRollback(c)
  \/ \E c \in 1..Len(co) : CreateOrderAudit(c)
  \/ \E c \in 1..Len(co) : CreateOrderAuditFail(c)

UpdateStatusSteps ==
  \/ \E c \in 1..Len(uo) : UpdateStatusWrite(c)
  \/ \E c \in 1..Len(uo) : UpdateStatusAudit(c)
  \/ \E c \in 1..Len(uo) : UpdateStatusAuditFail(c)

CancelOrderSteps ==
  \/ \E c \in 1..Len(cn) : CancelOrderCommit(c)
  \/ \E c \in 1..Len(cn) : CancelOrderRollback(c)
  \/ \E c \in 1..Len(cn) : CancelOrderAudit(c)
  \/ \E c \in 1..Len(cn) : CancelOrderAuditFail(c)

VerifyPaymentSteps ==
  \/ \E c \in 1..Len(vp) : VerifyPaymentFind(c)
  \/ \E c \in 1..Len(vp) : VerifyPaymentUpdate(c)
  \/ \E c \in 1..Len(vp) : VerifyPaymentOrderUpdate(c)
  \/ \E c \in 1..Len(vp) : VerifyPaymentFail(c)

WebhookSteps ==
  \/ \E c \in 1..Len(wh) : ChargeSuccessUpdate(c)
  \/ \E c \in 1..Len(wh) : ChargeSuccessOrderUpdate(c)
  \/ \E c \in 1..Len(wh) : ChargeSuccessFail(c)

\* the processor signs what it sends, and sends charge.success only for a
\* charge that succeeded (charges of references this store never recorded
\* included); anybody else can send anything without the key
Deliverable(signature, body) ==
  /\ verifyWebhookSignature(signature, body)
  /\ body.event = "charge.success"
  /\ body.reference = "R1"
  => processor = "success"

\* the order lifecycle from an empty orders table: concurrent createOrder,
\* cancelOrder, and updateOrderStatus by the owning merchant
Next ==
  \/ Started < MaxCalls /\ \E dto \in RaceDtos : CreateOrderValidate(dto)
  \/ Started < MaxCalls /\ \E o \in OrderIds \cup {0}, s \in ORDER_STATUSES :
                               UpdateStatusRead(StoreOwner, o, s)
  \/ Started < MaxCalls /\ \E o \in OrderIds \cup {0}, u \in Users \cup {None} :
                               CancelOrderRead(o, u)
  \/ \E c \in 1..Len(co) : GenerateOrderNumberRetry(c)
  \/ CreateOrderSteps
  \/ UpdateStatusSteps
  \/ CancelOrderSteps

Spec == Init /\ [][Next]_vars

\* one createOrder of any cart against any catalog, then cancelOrder; no
\* order number is taken, so generateOrderNumber has nothing to retry
NextCart ==
  \/ Started < 1 /\ \E dto \in CartDtos : CreateOrderValidate(dto)
  \/ Len(co) = 1 /\ Len(cn) < 1 /\ \E o \in OrderIds, u \in Users \cup {None} :
                                     CancelOrderRead(o, u)
  \/ CreateOrderSteps
  \/ CancelOrderSteps

SpecCart == InitCart /\ [][NextCart]_vars

\* one createOrder and one cancelOrder, while the merchant edits the
\* inventory-tracking flag of the products
NextTrack ==
  \/ NextCart
  \/ \E u \in Users, p \in Products, dto \in UpdateProductDtos :
       UpdateProduct(u, p, dto)

SpecTrack == InitCart /\ [][NextTrack]_vars

\* reconciliation of one payment, concurrent with the order's lifecycle
NextPay ==
  \/ Started < MaxPayCalls /\ \E r \in References : VerifyPaymentCall(r)
  \/ Started < MaxPayCalls /\ \E sig \in Signatures, b \in Bodies :
                                  Deliverable(sig, b) /\ HandleWebhook(sig, b)
  \/ Started < MaxPayCalls /\ \E u \in Users, o \in OrderIds,
                                  s \in ORDER_STATUSES \cup {None} : UpdateStatusRead(u, o, s)
  \/ Started < MaxPayCalls /\ \E o \in OrderIds, u \in Users \cup {None} :
                                  CancelOrderRead(o, u)
  \/ ProcessorSettle
  \/ VerifyPaymentSteps
  \/ WebhookSteps
  \/ UpdateStatusSteps
  \/ CancelOrderSteps

SpecPay == InitPay /\ [][NextPay]_vars

\* the two reconciliation paths alone: polls and webhook deliveries for one
\* payment of an order in any status
NextHook ==
  \/ Started < MaxHookCalls /\ \E r \in References : VerifyPaymentCall(r)
  \/ Started < MaxHookCalls /\ \E sig \in Signatures, b \in Bodies :
                                   Deliverable(sig, b) /\ HandleWebhook(sig, b)
  \/ ProcessorSettle
  \/ VerifyPaymentSteps
  \/ WebhookSteps

SpecHook == InitPay /\ [][NextHook]_vars

\* the status machine alone: updateOrderStatus and cancelOrder on an order
\* in any status
NextStatus ==
  \/ Started < MaxStatusCalls /\ \E u \in Users, o \in OrderIds,
                                     s \in ORDER_STATUSES \cup {None} :
                                     UpdateStatusRead(u, o, s)
  \/ Started < MaxStatusCalls /\ \E o \in OrderIds, u \in Users \cup {None} :
                                     CancelOrderRead(o, u)
  \/ UpdateStatusSteps
  \/ CancelOrderSteps

SpecStatus == InitPay /\ [][NextStatus]_vars

\* payment attempts for one order: initializePayment, the customer's
\* payment at the processor, and the poll of reference R1
NextInit ==
  \/ Started < MaxInitCalls /\ \E dto \in InitializeDtos : InitializePaymentRead(dto)
  \/ Started < MaxInitCalls /\ "R1" \in transactions /\ VerifyPaymentCall("R1")
  \/ "R1" \in transactions /\ ProcessorSettle
  \/ InitializePaymentSteps
  \/ VerifyPaymentSteps

SpecInit == InitInit /\ [][NextInit]_vars

\* request bodies of SpecLife: one unit of P1 picked up, delivered in Accra
\* or delivered in a city without a listed fee
LifeDtos ==
  {Dto("S1", <<[productId |-> "P1", variantId |-> None, quantity |-> 1]>>, d) :
     d \in {Pickup,
            [deliveryOption |-> "MERCHANT_DELIVERY", deliveryAddress |-> "addr",
             deliveryCity |-> "Accra"],
            [deliveryOption |-> "MERCHANT_DELIVERY", deliveryAddress |-> "addr",
             deliveryCity |-> "Ho"]}}

\* every operation of both services on the same store: orders are created,
\* moved, cancelled, and order 1 is paid for and reconciled
NextLife ==
  \/ Started < MaxLifeCalls /\ \E dto \in LifeDtos : CreateOrderValidate(dto)
  \/ Started < MaxLifeCalls /\ \E o \in OrderIds, s \in ORDER_STATUSES :
                                   UpdateStatusRead(StoreOwner, o, s)
  \/ Started < MaxLifeCalls /\ \E o \in OrderIds, u \in {StoreOwner, None} :
                                   CancelOrderRead(o, u)
  \/ Started < MaxLifeCalls /\ \E dto \in InitializeDtos : InitializePaymentRead(dto)
  \/ Started < MaxLifeCalls /\ "R1" \in transactions /\ VerifyPaymentCall("R1")
  \/ Started < MaxLifeCalls /\ \E b \in Bodies :
                                   Deliverable(Hmac(SecretKey, b), b)
                                   /\ HandleWebhook(Hmac(SecretKey, b), b)
  \/ "R1" \in transactions /\ ProcessorSettle
  \/ \E c \in 1..Len(co) : GenerateOrderNumberRetry(c)
  \/ CreateOrderSteps
  \/ UpdateStatusSteps
  \/ CancelOrderSteps
  \/ InitializePaymentSteps
  \/ VerifyPaymentSteps
  \/ WebhookSteps

SpecLife == InitLife /\ [][NextLife]_vars

\* createOrder calls on a store that already has an order; every await of
\* a call is answered eventually
NextNumber ==
  \/ Started < MaxNumberCalls /\ \E dto \in LifeDtos : CreateOrderValidate(dto)
  \/ \E c \in 1..Len(co) : GenerateOrderNumberRecurse(c)
  \/ CreateOrderSteps

SpecNumber ==
  /\ InitLife
  /\ [][NextNumber]_vars
  /\ WF_vars(\E c \in 1..Len(co) : GenerateOrderNumber(c))
  /\ WF_vars(\E c \in 1..Len(co) : GenerateOrderNumberRecurse(c))
  /\ WF_vars(\E c \in 1..Len(co) : CreateOrderCommit(c) \/ CreateOrderRollback(c))
  /\ WF_vars(\E c \in 1..Len(co) : CreateOrderAudit(c) \/ CreateOrderAuditFail(c))

\* ================================================================ claims
\* ---------------------------------------------------------------- C1
\* a verifyPayment call has executed its payment.update
VerifyWrote(c) == vp[c].paymentId # 0 /\ vp[c].pc \in {"orderUpdate", "done"}

\* a handleWebhook call has executed the payment.update of handleChargeSuccess
WebhookWrote(c) ==
  /\ wh[c].paymentId # 0
  /\ wh[c].payment.status = "PENDING"
  /\ wh[c].pc \in {"orderUpdate", "done"}

\* C1: when a poll and a charge.success webhook for the same reference both
\* read the Payment as PENDING and the processor reports success to both,
\* they do not both write: one performs the PENDING -> COMPLETED transition,
\* the other performs no write to the Payment
C1_ExactlyOneReconciles ==
  \A v \in 1..Len(vp), w \in 1..Len(wh) :
    /\ vp[v].paymentId # 0 /\ vp[v].paymentId = wh[w].paymentId
    /\ vp[v].payment.status = "PENDING" /\ wh[w].payment.status = "PENDING"
    /\ vp[v].paystackData = "success"
    => ~(VerifyWrote(v) /\ WebhookWrote(w))

\* ---------------------------------------------------------------- C3
\* C3: in every reachable state a Payment is COMPLETED if and only if its
\* Order's paymentStatus is COMPLETED with paidAt set
C3_PaymentAndOrderAgree ==
  \A p \in PaymentIds :
    payments[p].status = "COMPLETED"
      <=> /\ orders[payments[p].orderId].paymentStatus = "COMPLETED"
          /\ orders[payments[p].orderId].paidAt # 0

\* ---------------------------------------------------------------- C4
\* C4: a verifyPayment or handleWebhook call that found the Payment
\* COMPLETED leaves the Payment record and its Order unchanged
C4_CompletedIsNeverRevisited ==
  [][ /\ \A c \in 1..Len(vp) :
          vp[c].payment.status = "COMPLETED" /\ vp'[c] # vp[c]
            => payments' = payments /\ orders' = orders
      /\ \A c \in 1..Len(wh) :
          wh[c].payment.status = "COMPLETED" /\ wh'[c] # wh[c]
            => payments' = payments /\ orders' = orders ]_vars

\* ---------------------------------------------------------------- C5
\* C5: a Payment's status only changes PENDING -> COMPLETED or
\* PENDING -> FAILED, and never changes once COMPLETED or FAILED
C5_PaymentStatusIsTerminal ==
  [][ \A p \in PaymentIds :
        payments'[p].status # payments[p].status
          => /\ payments[p].status = "PENDING"
             /\ payments'[p].status \in {"COMPLETED", "FAILED"} ]_vars

\* ---------------------------------------------------------------- C7
\* C7: once an order is CANCELLED or DISPUTED no step changes its status
C7_CancelledDisputedTerminal ==
  [][ \A o \in OrderIds :
        orders[o].status \in {"CANCELLED", "DISPUTED"}
          => orders'[o].status = orders[o].status ]_vars

\* ---------------------------------------------------------------- C2
ProductOf(i) == IF i \in Variants THEN VariantProduct[i] ELSE i

\* C2: the stock quantity of every inventory-tracked product and variant is
\* never negative
C2_StockNeverNegative ==
  \A i \in Items : trackInventory[ProductOf(i)] => \A n \in stock[i] : n >= 0

\* ---------------------------------------------------------------- C6
\* the transition table of the status machine as the specification prints it
TransitionTable ==
  [s \in ORDER_STATUSES |->
     CASE s = "PLACED" -> {"ACCEPTED", "CANCELLED"}
       [] s = "ACCEPTED" -> {"PREPARING", "CANCELLED"}
       [] s = "PREPARING" -> {"READY_FOR_PICKUP", "OUT_FOR_DELIVERY", "CANCELLED"}
       [] s = "READY_FOR_PICKUP" -> {"COMPLETED", "CANCELLED"}
       [] s = "OUT_FOR_DELIVERY" -> {"DELIVERED", "FAILED"}
       [] s = "DELIVERED" -> {"COMPLETED", "DISPUTED"}
       [] s = "COMPLETED" -> {"DISPUTED"}
       [] s = "FAILED" -> {"PLACED"}
       [] OTHER -> {}]

\* C6: an updateOrderStatus call whose target is not in the table row of the
\* status it read fails, for the owning merchant with InvalidTransition, and
\* neither the step in which it fails nor any later step of that call
\* changes an order (status, history, timestamps)
C6_InvalidTransitionRejected ==
  [][ /\ Len(uo') > Len(uo)
          => LET call == uo'[Len(uo')]
             IN call.order # NoOrder
                /\ call.status \notin TransitionTable[call.order.status]
                => /\ orders' = orders
                   /\ call.pc = "failed"
                   /\ call.userId = StoreOwner => call.error = "InvalidTransition"
      /\ \A c \in 1..Len(uo) :
          uo[c].pc = "failed" => uo'[c] = uo[c] ]_vars

\* the scenario of the specification: DELIVERED -> PREPARING was rejected
C6_Witness ==
  \E c \in 1..Len(uo) :
    /\ uo[c].pc = "failed" /\ uo[c].error = "InvalidTransition"
    /\ uo[c].order.status = "DELIVERED" /\ uo[c].status = "PREPARING"
    /\ orders[uo[c].orderId].status = "DELIVERED"

\* ---------------------------------------------------------------- C8
\* item i is the counter of a line of the order whose product is tracked
RestoredLine(order, i) ==
  {k \in 1..Len(order.items) :
     LineCounter(order.items[k]) = i /\ trackInventory[order.items[k].productId]}

\* the stock after every tracked line of the order got its quantity back
StockAfterRestore(order) ==
  [i \in Items |->
     IF RestoredLine(order, i) = {} THEN stock[i]
     ELSE Inc(stock[i], order.items[CHOOSE k \in RestoredLine(order, i) : TRUE].quantity)]

\* C8: the transaction of cancelOrder is all or nothing: the step that ends
\* it either leaves the order CANCELLED with the stock of every tracked line
\* incremented by the ordered quantity, or changes neither orders nor stock;
\* and no step increments a stock counter without leaving CANCELLED an order
\* that has a line on that counter
C8_CancelIsAtomic ==
  [][ /\ \A c \in 1..Len(cn) :
          cn[c].pc = "transaction" /\ cn'[c].pc # "transaction"
          => \/ /\ orders'[cn[c].orderId].status = "CANCELLED"
                /\ orders'[cn[c].orderId].cancelledAt # 0
                /\ stock' = StockAfterRestore(orders[cn[c].orderId])
             \/ orders' = orders /\ stock' = stock
      /\ \A i \in Items :
          (\E n \in stock[i], m \in stock'[i] : m > n)
          => \E o \in OrderIds :
               /\ orders'[o].status = "CANCELLED"
               /\ \E k \in 1..Len(orders[o].items) :
                    LineCounter(orders[o].items[k]) = i ]_vars

\* an order with two tracked lines was cancelled and both counters are back
C8_Witness ==
  \E c \in 1..Len(cn) :
    /\ cn[c].pc = "audit"
    /\ orders[cn[c].orderId].status = "CANCELLED"
    /\ Len(orders[cn[c].orderId].items) = 2
    /\ \A k \in 1..2 : trackInventory[orders[cn[c].orderId].items[k].productId]
    /\ stock["P2"] = {1}

\* ---------------------------------------------------------------- C9
\* C9: after createOrder followed by cancelOrder with no other order in
\* between, every stock quantity equals the value createOrder read
C9_RoundTrip ==
  \A c \in 1..Len(cn) :
    cn[c].pc \in {"audit", "done"} /\ Len(co) = 1 /\ cn[c].orderId = co[1].orderId
    => stock = co[1].products.stock

\* an order of the variant and of a second tracked product was created and
\* then cancelled
C9_Witness ==
  \E c \in 1..Len(cn) :
    /\ cn[c].pc = "done" /\ Len(co) = 1 /\ cn[c].orderId = co[1].orderId
    /\ \E k \in 1..Len(co[1].dto.items) :
         /\ co[1].dto.items[k].variantId = "V1"
         /\ co[1].dto.items[k].quantity = 1
    /\ \E k \in 1..Len(co[1].dto.items) :
         co[1].dto.items[k].productId = "P2" /\ trackInventory["P2"]

ChargedLines(items, i) ==
  {k \in 1..Len(items) :
     LineCounter(items[k]) = i /\ trackInventory[items[k].productId]}

\* C11: the step in which createOrder commits appends an order in status
\* PLACED carrying the cart, and for every product and variant: if a line
\* of a tracked product charges that counter there is exactly one such line
\* and the counter decreases by its quantity, otherwise the counter is
\* unchanged
C11_CreateDeductsExactly ==
  [][ \A c \in 1..Len(co) :
        co[c].pc = "transaction" /\ co'[c].pc = "audit"
        => /\ Len(orders') = Len(orders) + 1
           /\ orders'[Len(orders')].status = "PLACED"
           /\ orders'[Len(orders')].items = co[c].dto.items
           /\ \A i \in Items :
                LET ks == ChargedLines(co[c].dto.items, i)
                IN IF ks = {} THEN stock'[i] = stock[i]
                   ELSE /\ Cardinality(ks) = 1
                        /\ \A k \in ks :
                             stock'[i] = Dec(stock[i], co[c].dto.items[k].quantity) ]_vars

\* one unit of the variant and one of an untracked product were ordered:
\* the variant's counter went from 1 to 0 and both product counters
\* kept their values
C11_Witness ==
  /\ Len(co) = 1 /\ co[1].pc = "done" /\ Len(co[1].dto.items) = 2
  /\ co[1].dto.items[1] = [productId |-> "P1", variantId |-> "V1", quantity |-> 1]
  /\ co[1].dto.items[2].productId = "P2" /\ ~trackInventory["P2"]
  /\ stock["V1"] = {0} /\ stock["P1"] = {MaxStock} /\ stock["P2"] = {1}
  /\ orders[1].status = "PLACED"

\* ---------------------------------------------------------------- C12
\* C12: a cancelOrder call that read the order in a status other than
\* PLACED commits only when its caller is the merchant owning the store; a
\* call without actor identity, or with another identity, never commits
C12_OnlyOwnerCancelsAfterPlaced ==
  [][ \A c \in 1..Len(cn) :
        /\ cn[c].pc = "transaction" /\ cn'[c].pc = "audit"
        /\ cn[c].order.status # "PLACED"
        => cn[c].userId = StoreOwner ]_vars

\* ---------------------------------------------------------------- C13
\* C13: a cancelOrder call that reads the order as DELIVERED, COMPLETED or
\* CANCELLED fails with CannotCancel in the step that reads it, that step
\* changes no order (status, history, timestamps) and no stock quantity,
\* and a failed call takes no further step
C13_FinishedOrderNotCancelled ==
  [][ /\ Len(cn') > Len(cn)
          => LET call == cn'[Len(cn')]
             IN call.order.status \in {"DELIVERED", "COMPLETED", "CANCELLED"}
                => /\ call.pc = "failed" /\ call.error = "CannotCancel"
                   /\ orders' = orders /\ stock' = stock
      /\ \A c \in 1..Len(cn) : cn[c].pc = "failed" => cn'[c] = cn[c] ]_vars

\* cancelOrder was refused on an order another cancelOrder had cancelled
C13_Witness ==
  \E c \in 1..Len(cn), d \in 1..Len(cn) :
    /\ cn[c].pc = "failed" /\ cn[c].error = "CannotCancel"
    /\ cn[c].order.status = "CANCELLED"
    /\ cn[d].pc \in {"audit", "done"} /\ cn[d].orderId = cn[c].orderId
    /\ orders[cn[c].orderId] = cn[c].order

\* ---------------------------------------------------------------- C14
\* C14: a handleWebhook call whose signature is not the HMAC of its body
\* under the processor secret fails with InvalidSignature in its first
\* step, that step changes no payment and no order, and the call takes no
\* further step, whatever event and reference the body carries
C14_BadSignatureChangesNothing ==
  [][ /\ Len(wh') > Len(wh)
          => LET call == wh'[Len(wh')]
             IN call.signature # Hmac(SecretKey, call.body)
                => /\ call.pc = "failed" /\ call.error = "InvalidSignature"
                   /\ payments' = payments /\ orders' = orders
      /\ \A c \in 1..Len(wh) :
          wh[c].error = "InvalidSignature" => wh'[c] = wh[c] ]_vars

\* a charge.success for the PENDING payment, signed under another key, was
\* rejected and the payment is still PENDING
C14_Witness ==
  \E c \in 1..Len(wh) :
    /\ wh[c].body = [event |-> "charge.success", reference |-> "R1"]
    /\ wh[c].signature = Hmac("sk_other", wh[c].body)
    /\ wh[c].pc = "failed" /\ wh[c].error = "InvalidSignature"
    /\ payments[1].status = "PENDING"
    /\ orders[1].paymentStatus = "PENDING"

\* ---------------------------------------------------------------- C15
\* C15: in every reachable state the last entry of an order's status
\* history carries the order's current status
C15_HistoryEndsAtStatus ==
  \A o \in OrderIds :
    /\ Len(orders[o].statusHistory) >= 1
    /\ orders[o].statusHistory[Len(orders[o].statusHistory)].status = orders[o].status

\* ---------------------------------------------------------------- C16
IsPrefix(s, t) == Len(s) <= Len(t) /\ \A k \in 1..Len(s) : t[k] = s[k]

\* C16: no step overwrites or drops an entry of an order's status history:
\* the history before a step is a prefix of the history after it
C16_HistoryAppendOnly ==
  [][ \A o \in OrderIds :
        IsPrefix(orders[o].statusHistory, orders'[o].statusHistory) ]_vars

\* ---------------------------------------------------------------- C17
\* what the two reconciliation paths are compared on
ReconciledView(p) ==
  [payment |-> payments[p].status,
   verified |-> payments[p].verifiedAt # 0,
   paymentStatus |-> orders[payments[p].orderId].paymentStatus,
   paid |-> orders[payments[p].orderId].paidAt # 0,
   status |-> orders[payments[p].orderId].status]

\* the order status before any call of the behaviour: no call but the one
\* reconciliation has run, so it is the status the history ends at
StatusBefore(o) == orders[o].statusHistory[Len(orders[o].statusHistory)].status

\* C17: from the same state with a PENDING payment whose charge succeeded,
\* a completed verifyPayment and a completed charge.success webhook, each
\* run alone, end in the same payment status, verification time presence,
\* order paymentStatus, paidAt presence and order status; that view does
\* not depend on the path nor on the status the order had
C17_PathsConverge ==
  LET reconciled == [payment |-> "COMPLETED", verified |-> TRUE,
                     paymentStatus |-> "COMPLETED", paid |-> TRUE,
                     status |-> "PREPARING"]
  IN /\ /\ Started = 1 /\ Len(vp) = 1 /\ vp[1].pc = "done"
        /\ vp[1].payment.status = "PENDING" /\ vp[1].paystackData = "success"
        => ReconciledView(vp[1].paymentId) = reconciled
     /\ /\ Started = 1 /\ Len(wh) = 1 /\ wh[1].pc = "done"
        /\ wh[1].payment.status = "PENDING"
        => ReconciledView(wh[1].paymentId) = reconciled

\* the webhook alone reconciled the payment of an order that was ACCEPTED
C17_Witness ==
  /\ Started = 1 /\ Len(wh) = 1 /\ wh[1].pc = "done"
  /\ wh[1].payment.status = "PENDING"
  /\ payments[1].webhookReceived /\ ~payments[1].webhookVerified
  /\ StatusBefore(1) = "ACCEPTED"
  /\ orders[1].status = "PREPARING"

\* ---------------------------------------------------------------- C18
\* C18: when an order that is not paid already has a FAILED or PENDING
\* payment and its merchant an active sub-account, the payment.create of a
\* further initializePayment carrying a reference no payment has inserts a
\* new payment with that reference and keeps every earlier payment
C18_ReattemptCreatesPayment ==
  [][ \A c \in 1..Len(ip) :
        /\ ip[c].pc = "create" /\ ip'[c].pc # "create"
        /\ paystackAccount = "active"
        /\ \A p \in PaymentIds : payments[p].paystackReference # ip[c].reference
        /\ \E p \in PaymentIds : /\ payments[p].orderId = ip[c].dto.orderId
                                  /\ payments[p].status \in {"FAILED", "PENDING"}
        /\ orders[ip[c].dto.orderId].paymentStatus # "COMPLETED"
        => /\ ip'[c].pc = "audit"
           /\ Len(payments') = Len(payments) + 1
           /\ payments'[Len(payments')].paystackReference = ip[c].reference
           /\ \A p \in PaymentIds : payments'[p] = payments[p] ]_vars

\* ---------------------------------------------------------------- C19
\* an initializePayment call passed every check that precedes the
\* sub-account check
PassedEarlierChecks(call) ==
  /\ call.order # NoOrder
  /\ call.order.customerEmail = call.dto.email
       \/ call.order.customerPhone = call.dto.phone
  /\ call.order.paymentStatus # "COMPLETED"

\* C19: while the merchant's sub-account is linked but inactive, an
\* initializePayment call that passes the earlier checks fails with
\* MerchantPaymentNotConfigured, no transaction is opened at the processor
\* and no payment is created
C19_InactiveAccountRefused ==
  paystackAccount = "inactive"
    => /\ transactions = {} /\ payments = <<>>
       /\ \A c \in 1..Len(ip) :
            PassedEarlierChecks(ip[c])
              => ip[c].pc = "failed" /\ ip[c].error = "MerchantPaymentNotConfigured"

\* ---------------------------------------------------------------- C20
\* C20: an initializePayment call that passes the earlier checks while the
\* merchant has no sub-account fails with MerchantPaymentNotConfigured in
\* the step that reads the order, that step changes neither the payments
\* nor the processor's transactions, and a failed call takes no further step
C20_NoAccountRefused ==
  [][ /\ Len(ip') > Len(ip)
          => LET call == ip'[Len(ip')]
             IN PassedEarlierChecks(call) /\ paystackAccount = "none"
                => /\ call.pc = "failed"
                   /\ call.error = "MerchantPaymentNotConfigured"
                   /\ payments' = payments /\ transactions' = transactions
      /\ \A c \in 1..Len(ip) :
          ip[c].pc = "failed" => ip'[c] = ip[c] ]_vars

\* the customer of the order asked to pay and was refused for the missing
\* sub-account
C20_Witness ==
  \E c \in 1..Len(ip) :
    /\ ip[c].dto.orderId = 1 /\ ip[c].dto.phone = orders[1].customerPhone
    /\ ip[c].pc = "failed" /\ ip[c].error = "MerchantPaymentNotConfigured"
    /\ paystackAccount = "none"
    /\ payments = <<>> /\ transactions = {}

\* ---------------------------------------------------------------- C21
\* an initializePayment call got its transaction opened at the processor
OpenedTransaction(call) ==
  call.reference # None /\ call.error # "UpstreamFailure"

\* C21: for a merchant with an active sub-account, an initializePayment
\* call whose processor call failed ends with UpstreamFailure and has
\* created no payment; a call whose processor call succeeded has, once it
\* has ended, a payment carrying its reference
C21_ProcessorAndPaymentAgree ==
  \A c \in 1..Len(ip) :
    paystackAccount = "active" =>
    /\ ip[c].error = "UpstreamFailure"
         => /\ ip[c].pc = "failed" /\ ip[c].paymentId = 0
    /\ OpenedTransaction(ip[c]) /\ ip[c].pc \in {"done", "failed"}
         => \E p \in PaymentIds :
              /\ payments[p].paystackReference = ip[c].reference
              /\ payments[p].orderId = ip[c].dto.orderId

\* ---------------------------------------------------------------- C22
\* C22: a correctly signed charge.success whose reference matches no
\* payment is acknowledged with an error, and one whose payment is already
\* COMPLETED is acknowledged with success and changes nothing
C22_UnknownReferenceAckedWithError ==
  \A c \in 1..Len(wh) :
    /\ wh[c].signature = Hmac(SecretKey, wh[c].body)
    /\ wh[c].body.event = "charge.success"
    => /\ wh[c].paymentId = 0 => wh[c].pc = "failed" /\ wh[c].error # None
       /\ wh[c].payment.status = "COMPLETED" => wh[c].pc = "done" /\ wh[c].error = None

\* ---------------------------------------------------------------- C23
Amounts(o) == <<o.subtotal, o.deliveryFee, o.tax, o.discount, o.total>>

\* C23: after every step every order satisfies
\* total = subtotal + deliveryFee + tax - discount, the subtotal of a new
\* order is the sum of its lines' price times quantity, and no step changes
\* any of the five amounts of an order that existed before it
C23_TotalEquation ==
  [][ \A o \in 1..Len(orders') :
        /\ orders'[o].total = orders'[o].subtotal + orders'[o].deliveryFee
                                + orders'[o].tax - orders'[o].discount
        /\ o \in OrderIds => Amounts(orders'[o]) = Amounts(orders[o])
        /\ o \notin OrderIds => orders'[o].subtotal = Subtotal(orders'[o].items, 1) ]_vars

\* a second order, delivered in Accra, was created and then accepted; both
\* orders carry the amounts they were created with
C23_Witness ==
  /\ Len(orders) = 2
  /\ Amounts(orders[2]) = <<1000, 1500, 0, 0, 2500>>
  /\ orders[2].status = "ACCEPTED"
  /\ Amounts(orders[1]) = <<1000, 0, 0, 0, 1000>>

\* ---------------------------------------------------------------- C24
\* the conditions of createOrder a request violates, by kind
StoreViolated(dto) == dto.storeId \notin Stores \/ ~StoreIsOpen[dto.storeId]

AddressViolated(dto) ==
  /\ dto.deliveryOption = "MERCHANT_DELIVERY"
  /\ dto.deliveryAddress = None \/ dto.deliveryCity = None

ProductViolated(dto) ==
  \E k \in 1..Len(dto.items) :
    \/ dto.items[k].productId \notin Products
    \/ ProductStore[dto.items[k].productId] # dto.storeId
    \/ ~isAvailable[dto.items[k].productId]

VariantViolated(dto) ==
  \E k \in 1..Len(dto.items) :
    /\ dto.items[k].variantId # None
    /\ \/ dto.items[k].productId \notin Products
       \/ VariantProduct[dto.items[k].variantId] # dto.items[k].productId
       \/ ~isAvailable[dto.items[k].variantId]

\* C24: the error of a createOrder call that failed its validation is that
\* of the earliest violated kind of condition, in the order store, address,
\* products, variants, stock: no earlier kind is violated by the request
C24_EarliestViolationReported ==
  \A c \in 1..Len(co) :
    co[c].pc = "failed" =>
      LET dto == co[c].dto
          e == co[c].error
      IN /\ e = "AddressRequired" => ~StoreViolated(dto)
         /\ e \in {"ProductsNotAvailable", "ProductNotFound"}
              => ~StoreViolated(dto) /\ ~AddressViolated(dto)
         /\ e = "VariantNotAvailable"
              => ~StoreViolated(dto) /\ ~AddressViolated(dto) /\ ~ProductViolated(dto)
         /\ e = "InsufficientStock"
              => /\ ~StoreViolated(dto) /\ ~AddressViolated(dto)
                 /\ ~ProductViolated(dto) /\ ~VariantViolated(dto)

\* ---------------------------------------------------------------- C25
\* the lifecycle timestamps of an order
Stamps(o) ==
  <<o.acceptedAt, o.preparingAt, o.readyAt, o.deliveredAt, o.completedAt,
    o.cancelledAt>>

\* C25: once a lifecycle timestamp of an order has a value no step
\* changes it
C25_TimestampsSetOnce ==
  [][ \A o \in OrderIds : \A k \in 1..6 :
        Stamps(orders[o])[k] # 0 => Stamps(orders'[o])[k] = Stamps(orders[o])[k] ]_vars

\* ---------------------------------------------------------------- C26
\* C26: every order's status history has at least one entry, the first
\* entry has status PLACED, and the timestamps never decrease along it
C26_HistoryWellFormed ==
  \A o \in OrderIds :
    LET h == orders[o].statusHistory
    IN /\ Len(h) >= 1
       /\ h[1].status = "PLACED"
       /\ \A k \in 1..(Len(h) - 1) : h[k].timestamp <= h[k + 1].timestamp

\* an order went FAILED -> PLACED -> ACCEPTED: its history has seven
\* entries and still starts at the creation entry
C26_Witness ==
  \E o \in OrderIds :
    LET h == orders[o].statusHistory
    IN /\ Len(h) = 7
       /\ h[5].status = "FAILED" /\ h[6].status = "PLACED" /\ h[7].status = "ACCEPTED"
       /\ h[1] = [status |-> "PLACED", timestamp |-> 1]

\* ---------------------------------------------------------------- C27
\* C27: no two orders have the same order number
C27_OrderNumbersUnique ==
  \A o, q \in OrderIds : orders[o].orderNumber = orders[q].orderNumber => o = q

\* two createOrder calls generated the same number and both passed the
\* lookup; one committed and the insert of the other was refused
C27_Witness ==
  /\ Len(co) = 2
  /\ co[1].orderNumber = co[2].orderNumber /\ co[1].orderNumber # 0
  /\ co[1].pc = "done"
  /\ co[2].pc = "failed" /\ co[2].error = "TransactionFailed"
  /\ Len(orders) = 1 /\ orders[1].orderNumber = co[2].orderNumber

\* ---------------------------------------------------------------- C28
\* C28: order-number generation terminates: a createOrder call that is
\* generating its order number eventually has one or has failed
C28_GenerationTerminates ==
  \A c \in 1..MaxNumberCalls :
    (c \in 1..Len(co) /\ co[c].pc = "generateOrderNumber")
      ~> (c \in 1..Len(co) /\ co[c].pc # "generateOrderNumber")

\* ---------------------------------------------------------------- C29
\* a call of the sequence calls goes from its audit to failed in this step
AuditFails(calls, calls2) ==
  \E c \in 1..Len(calls) : calls[c].pc = "audit" /\ calls2[c].pc = "failed"

\* C29: the step in which the audit of a committed createOrder,
\* updateOrderStatus, cancelOrder or initializePayment fails changes no
\* order, stock quantity, order count or payment: what the call committed
\* stays as committed
C29_AuditFailureKeepsCommit ==
  [][ \/ AuditFails(co, co') \/ AuditFails(uo, uo')
      \/ AuditFails(cn, cn') \/ AuditFails(ip, ip')
      => db' = db ]_vars

\* the audit of a createOrder failed: its order is there, PLACED, and the
\* unit it ordered is still deducted from the stock
C29_Witness ==
  \E c \in 1..Len(co) :
    /\ co[c].pc = "failed" /\ co[c].error = "AuditFailed"
    /\ orders[co[c].orderId].status = "PLACED"
    /\ orders[co[c].orderId].orderNumber = co[c].orderNumber
    /\ stock["P1"] = {MaxStock - 2}

\* ---------------------------------------------------------------- C30
\* C30: a step of an initializePayment call changes no order (status,
\* paymentStatus, paidAt, history) and no stock quantity, and removes or
\* alters no payment
C30_InitializeOnlyAddsPayment ==
  [][ ip' # ip
      => /\ orders' = orders /\ stock' = stock /\ orderCount' = orderCount
         /\ \A p \in PaymentIds : payments'[p] = payments[p] ]_vars

\* an initializePayment succeeded and one failed on the order, which is
\* as it was created
C30_Witness ==
  /\ \E c \in 1..Len(ip) : ip[c].pc = "done" /\ payments[ip[c].paymentId].status = "PENDING"
  /\ \E c \in 1..Len(ip) : ip[c].pc = "failed" /\ ip[c].error = "UniqueViolation"
  /\ orders = <<PlacedOrder>>
  /\ Len(payments) = 1

\* ---------------------------------------------------------------- C31
\* C31: the stock an order reserved is restored at most once: whatever
\* cancelOrder calls run on the order of SpecStatus, the stock of P1 never
\* exceeds its level before the order (MaxStock - 1 plus the ordered
\* quantity)
C31_StockRestoredOnce ==
  \A n \in stock["P1"] :
    n <= (MaxStock - 1) + orders[1].items[1].quantity

\* ---------------------------------------------------------------- C32
\* C32: payment confirmation never moves an order backwards: a step of
\* verifyPayment or of a charge.success webhook leaves the status of an
\* order that is READY_FOR_PICKUP, OUT_FOR_DELIVERY, DELIVERED, COMPLETED
\* or FAILED as it is
C32_ConfirmationNeverMovesBack ==
  [][ \A o \in OrderIds :
        orders[o].status \in {"READY_FOR_PICKUP", "OUT_FOR_DELIVERY", "DELIVERED",
                              "COMPLETED", "FAILED"}
        /\ (vp' # vp \/ wh' # wh)
        => orders'[o].status = orders[o].status ]_vars

\* ---------------------------------------------------------------- C33
\* C33: the step that makes an order CANCELLED, by cancelOrder or by
\* updateOrderStatus, gives the quantities of its inventory-tracked lines
\* back to the stock
C33_CancelledMeansRestored ==
  [][ \A o \in OrderIds :
        orders[o].status # "CANCELLED" /\ orders'[o].status = "CANCELLED"
        => stock' = RestoreStock(stock, orders[o].items, 1, trackInventory) ]_vars

\* ---------------------------------------------------------------- C34
\* C34: with only updateOrderStatus calls running, every status an
\* updateOrderStatus writes is a target the transition table allows from
\* the status stored right before the write
C34_WriteFromStoredStatus ==
  [][ \A c \in 1..Len(uo) :
        cn = <<>> /\ uo[c].pc = "update" /\ uo'[c].pc = "audit"
        => validateStatusTransition(orders[uo[c].orderId].status, uo[c].status) ]_vars

\* ---------------------------------------------------------------- C35
\* delivery c is acknowledged with success in this step, for a
\* charge.success event whose reference belongs to a payment
AcknowledgesCharge(c) ==
  /\ c \in 1..Len(wh') /\ wh'[c].pc = "done"
  /\ c \in 1..Len(wh) => wh[c].pc # "done"
  /\ wh'[c].body.event = "charge.success"
  /\ FindPayment(wh'[c].body.reference) # 0

\* C35: when a charge.success delivery for an existing payment is
\* acknowledged, and every request that came before it has run to its end
\* without error, the payment is COMPLETED and its order's paymentStatus is
\* COMPLETED after the step
C35_AcknowledgedChargeIsCompleted ==
  [][ \A c \in 1..MaxHookCalls :
        /\ AcknowledgesCharge(c)
        /\ \A v \in 1..Len(vp) : vp[v].pc = "done"
        /\ \A d \in 1..Len(wh) : d # c => wh[d].pc = "done"
        => LET id == FindPayment(wh'[c].body.reference)
           IN /\ payments'[id].status = "COMPLETED"
              /\ orders'[payments'[id].orderId].paymentStatus = "COMPLETED" ]_vars

\* ---------------------------------------------------------------- C36
\* every line of the cart, taken alone, names an available product of the
\* store, a variant of it that is available if it names one, and a quantity
\* the stock covers
EachLineSatisfied(dto) ==
  \A i \in 1..Len(dto.items) : ValidateLine(dto.items[i], Snapshot(dto)) = "ok"

\* C36: createOrder rejects no cart for an open store, with its address if
\* it is delivered, in which each line individually satisfies the product,
\* variant and stock conditions
C36_ValidCartAccepted ==
  [][ Len(co') = Len(co) + 1
      => LET call == co'[Len(co')]
         IN ~StoreViolated(call.dto) /\ ~AddressViolated(call.dto)
            /\ EachLineSatisfied(call.dto)
            => call.pc # "failed" ]_vars

\* ---------------------------------------------------------------- C37
\* C37: the commit of cancelOrder increments exactly the counters that the
\* order's createOrder decremented, that is those of the lines whose product
\* tracked inventory when createOrder read it, whatever the flag is now
C37_CancelRestoresWhatCreateDeducted ==
  [][ \A c \in 1..Len(cn) :
        cn[c].pc = "transaction" /\ cn'[c].pc = "audit"
        => stock' = RestoreStock(stock, cn[c].order.items, 1,
                                 co[1].products.trackInventory) ]_vars

====
